---- MODULE Spec2Model ----
(***************************************************************************)
(* ORBET Cloud Panel (src/app.py): the day-partitioned file store, the     *)
(* path resolver, the access scope guard and the vehicle-ticket store.     *)
(*                                                                         *)
(* Strings of the program are sequences of one-character strings, so that  *)
(* secure_name, upper/lower and the path operations are computed           *)
(* character by character as the code computes them.  A path is the        *)
(* sequence of its segments from the filesystem root.  A calendar date is  *)
(* the day number d of 2024-01-d; the time of day is not modelled.         *)
(***************************************************************************)
EXTENDS Integers, Sequences, FiniteSets, TLC

(* ------------------------------ bounds -------------------------------- *)
\* number of request workers that may be inside a handler at the same time
NumProcs == 2
\* number of rows the ticket table may ever receive (cap on the AUTOINCREMENT id)
MaxId == 2
\* number of capture/ticket files that may be uploaded
MaxFiles == 2
\* the clock runs over the days FirstDay .. FirstDay + MaxTicks
MaxTicks == 1
\* number of files that may be put into the store by other means than upload
MaxPlaced == 2
\* the pages and page sizes a listing request may ask for
MaxPage == 3
MaxLimit == 2

FirstDay == 5

(* ------------------------------ strings ------------------------------- *)
LowerAlpha == <<"a","b","c","d","e","f","g","h","i","j","k","l","m",
                "n","o","p","q","r","s","t","u","v","w","x","y","z">>
UpperAlpha == <<"A","B","C","D","E","F","G","H","I","J","K","L","M",
                "N","O","P","Q","R","S","T","U","V","W","X","Y","Z">>
Digits == <<"0","1","2","3","4","5","6","7","8","9">>

Range(s) == {s[i] : i \in DOMAIN s}

IndexIn(alpha, c) == CHOOSE i \in DOMAIN alpha : alpha[i] = c

upper_char(c) == IF c \in Range(LowerAlpha) THEN UpperAlpha[IndexIn(LowerAlpha, c)] ELSE c
lower_char(c) == IF c \in Range(UpperAlpha) THEN LowerAlpha[IndexIn(UpperAlpha, c)] ELSE c

upper(s) == [i \in 1..Len(s) |-> upper_char(s[i])]
lower(s) == [i \in 1..Len(s) |-> lower_char(s[i])]

startswith(s, pre) == Len(pre) <= Len(s) /\ SubSeq(s, 1, Len(pre)) = pre
endswith(s, suf) == Len(suf) <= Len(s) /\ SubSeq(s, Len(s) - Len(suf) + 1, Len(s)) = suf
contains(s, sub) == \E i \in 1..(Len(s) - Len(sub) + 1) : SubSeq(s, i, i + Len(sub) - 1) = sub

\* a text taken as it is
strip_nothing(s) == s

\* str.strip(): leading and trailing blanks removed
RECURSIVE strip(_)
strip(s) ==
    IF s = <<>> THEN s
    ELSE IF Head(s) = " " THEN strip(Tail(s))
    ELSE IF s[Len(s)] = " " THEN strip(SubSeq(s, 1, Len(s) - 1))
    ELSE s

\* seq[start_idx:end_idx] for indices that are not negative
slice(seq, start_idx, end_idx) ==
    SubSeq(seq, start_idx + 1, IF end_idx < Len(seq) THEN end_idx ELSE Len(seq))

\* secure_name: allow-list of letters, digits, '.', '_', '-'; anything else becomes '_'
keep == Range(LowerAlpha) \cup Range(UpperAlpha) \cup Range(Digits) \cup {".", "_", "-"}

secure_name(name) == [i \in 1..Len(name) |-> IF name[i] \in keep THEN name[i] ELSE "_"]

(* ------------------------------- dates -------------------------------- *)
\* date.isoformat() / strftime("%Y-%m-%d") of day d of January 2024
isoformat(d) == <<"2","0","2","4","-","0","1","-">> \o <<Digits[(d \div 10) + 1], Digits[(d % 10) + 1]>>

\* the value of a decimal digit
digit_value(c) == IndexIn(Digits, c) - 1

\* strptime(s, "%Y-%m-%d") for the dates of January 2024: the month reads as
\* "01" or "1", the day with two digits or, below 10, with one digit or with
\* a blank before it.  The day number, 0 when strptime raises.
strptime_day(s) ==
    LET body == IF startswith(s, <<"2","0","2","4","-","0","1","-">>) THEN SubSeq(s, 9, Len(s))
                ELSE IF startswith(s, <<"2","0","2","4","-","1","-">>) THEN SubSeq(s, 8, Len(s))
                ELSE <<>>
        d == IF Len(body) = 1 /\ body[1] \in Range(Digits) THEN digit_value(body[1])
             ELSE IF Len(body) = 2 /\ body[1] = " " /\ body[2] \in Range(Digits)
                 THEN digit_value(body[2])
             ELSE IF Len(body) = 2 /\ body[1] \in Range(Digits) /\ body[2] \in Range(Digits)
                 THEN 10 * digit_value(body[1]) + digit_value(body[2])
             ELSE 0
    IN  IF d \in 1..31 THEN d ELSE 0

(* ------------------------------- paths -------------------------------- *)
Dot == <<".">>
DotDot == <<".", ".">>
capturas == <<"c","a","p","t","u","r","a","s">>
tickets_kind == <<"t","i","c","k","e","t","s">>
captura == <<"c","a","p","t","u","r","a">>
ticket == <<"t","i","c","k","e","t">>

\* DATA_DIR = Path(os.getenv("DATA_DIR", "data")).resolve(): <working directory>/data
Cwd == << <<"a","p","p">> >>
DATA_DIR == Cwd \o << <<"d","a","t","a">> >>

\* Path.resolve() where no symbolic link exists: empty and "." segments drop
\* out, ".." removes the segment before it (and stays at the root).
RECURSIVE resolve(_)
resolve(p) ==
    IF p = <<>> THEN <<>>
    ELSE LET r == resolve(SubSeq(p, 1, Len(p) - 1))
             s == p[Len(p)]
         IN  IF s = <<>> \/ s = Dot THEN r
             ELSE IF s = DotDot THEN (IF r = <<>> THEN <<>> ELSE SubSeq(r, 1, Len(r) - 1))
             ELSE r \o <<s>>

\* str(path) of an absolute path: "/" for the root, else "/seg" for every segment
RECURSIVE path_str(_)
path_str(p) == IF p = <<>> THEN <<>> ELSE path_str(SubSeq(p, 1, Len(p) - 1)) \o <<"/">> \o p[Len(p)]
str_of_path(p) == IF p = <<>> THEN <<"/">> ELSE path_str(p)

\* p lies strictly below directory dir (component-wise)
IsStrictDescendant(p, dir) == Len(p) > Len(dir) /\ SubSeq(p, 1, Len(dir)) = dir

\* owner_root(owner) = DATA_DIR / secure_name(owner), as the operating system reaches it
owner_root(owner) == resolve(DATA_DIR \o <<secure_name(owner)>>)

(* --------------------------- configuration ---------------------------- *)
\* USERS (parsed from the USERS environment variable): user -> role.
\* The deployment modelled has one admin and two clientes whose names differ
\* only in a character that secure_name replaces.
admin == <<"a","d","m","i","n">>
cliente1 == <<"c","_","1">>
cliente2 == <<"c"," ","1">>
NoValue == <<>>   \* None and the empty string: both are false in a Python condition

USERS == [u \in {admin, cliente1, cliente2} |-> IF u = admin THEN "admin" ELSE "cliente"]

\* a session after login: req.session["user"], req.session["role"]
Session(u) == [user |-> u, role |-> USERS[u]]
Anonymous == [user |-> NoValue, role |-> "none"]

\* upload's stamp = datetime.now().strftime("%H-%M-%S"); the time of day is fixed
stamp == <<"0","9","-","0","0","-","0","0">>

ENTRADA == <<"E","N","T","R","A","D","A">>
SALIDA == <<"S","A","L","I","D","A">>

(* ------------------------------- state -------------------------------- *)
VARIABLES
    files,    \* the files on disk: resolved path -> modification date (day number)
    tickets,  \* table tickets_vehiculares: a set of rows
    nextId,   \* the next AUTOINCREMENT id of the table (ids are never reused)
    today,    \* the clock: today's day number
    procs,    \* per request worker: where it is inside a handler, and its locals
    resp,     \* the last response sent, or the record of the last startup sweep
    issued    \* history: the numbers that saves gave to captures without a ticket

vars == <<files, tickets, nextId, today, procs, resp, issued>>

Procs == 1..NumProcs

Idle == [pc |-> "idle", owner |-> NoValue, kind |-> NoValue, day |-> NoValue, name |-> NoValue,
         fecha |-> NoValue, tipo_mov |-> NoValue, placa |-> NoValue, ticket_id |-> 0,
         corr |-> 0, dest |-> <<>>]

\* the filters of a listing request; NoValue stands for a parameter not given
NoQuery == [start |-> NoValue, end |-> NoValue, q |-> NoValue, cat |-> NoValue, status |-> NoValue]

\* the last exchange: what the request named (user, role, req_owner, query)
\* and what the response carries
NoResp == [op |-> "none", status |-> 0, user |-> NoValue, role |-> "none", req_owner |-> NoValue,
           owner |-> NoValue, tid |-> 0, path |-> <<>>, items |-> <<>>,
           query |-> NoQuery, page |-> 0, limit |-> 0, total |-> 0, pages |-> 0, counts |-> <<>>,
           fecha |-> NoValue, days |-> 0, now |-> 0, failed |-> {}]

Response(op, status, caller, req_owner) ==
    [NoResp EXCEPT !.op = op, !.status = status, !.user = caller.user, !.role = caller.role,
                   !.req_owner = req_owner]

Init ==
    /\ files = <<>>
    /\ tickets = {}
    /\ nextId = 1
    /\ today = FirstDay
    /\ procs = [p \in Procs |-> Idle]
    /\ resp = NoResp
    /\ issued = {}

(* ------------------------- filesystem helpers ------------------------- *)
Exists(path) == path \in DOMAIN files

\* the file store with the files of `gone` removed
Unlink(gone) == [q \in (DOMAIN files) \ gone |-> files[q]]

\* path.with_suffix(path.suffix + ".thumb.jpg"): the same name with ".thumb.jpg" appended
thumb_of(path) ==
    SubSeq(path, 1, Len(path) - 1) \o <<path[Len(path)] \o <<".","t","h","u","m","b",".","j","p","g">> >>

\* today_dir(owner, kind) for kind "capturas", else "tickets"
today_dir(owner, kind) ==
    DATA_DIR \o <<secure_name(owner), IF kind = capturas THEN capturas ELSE tickets_kind, isoformat(today)>>

(* --------------------- path resolver and scope guard ------------------ *)
\* _safe_path: 404 for an unknown kind, 403 when the resolved path does not
\* start with the resolved owner directory (a comparison of the two strings),
\* 404 when the path is not an existing file, else the resolved path.
_safe_path(owner, kind, day, name) ==
    IF kind \notin {capturas, tickets_kind} THEN [status |-> 404, path |-> <<>>]
    ELSE LET o == secure_name(owner)
             base == DATA_DIR \o <<o, kind>>
             path == resolve(base \o <<secure_name(day), secure_name(name)>>)
         IN  IF ~startswith(str_of_path(path), str_of_path(resolve(DATA_DIR \o <<o>>)))
                 THEN [status |-> 403, path |-> <<>>]
             ELSE IF ~Exists(path) THEN [status |-> 404, path |-> <<>>]
             ELSE [status |-> 200, path |-> path]

\* a guard that lets every logged-in caller touch every owner
_can_access_owner_open(caller, owner) == TRUE

\* _can_access_owner: an admin may touch every owner, anyone else only their own
_can_access_owner(caller, owner) ==
    IF caller.role = "admin" THEN TRUE ELSE owner = caller.user

(* ----------------------------- ticket store --------------------------- *)
\* get_ticket_for_capture: the row with the four-part key, the highest id first
RowsFor(owner, kind, day, name) ==
    {t \in tickets : t.captura_owner = owner /\ t.captura_kind = kind
                     /\ t.captura_day = day /\ t.captura_name = name}

MaxOf(S) == CHOOSE m \in S : \A x \in S : x <= m

get_ticket_for_capture(owner, kind, day, name) ==
    LET rows == RowsFor(owner, kind, day, name)
    IN  IF rows = {} THEN {} ELSE {CHOOSE t \in rows : t.id = MaxOf({r.id : r \in rows})}

\* SELECT MAX(n_corr_dia) ... WHERE owner=? AND fecha=?  (0 when there is no row)
last_corr(owner, fecha) ==
    LET ns == {t.n_corr_dia : t \in {r \in tickets : r.owner = owner /\ r.fecha = fecha}}
    IN  IF ns = {} THEN 0 ELSE MaxOf(ns)

\* UPDATE ... SET tipo_mov=?, placa=?, ... WHERE id=?
update_row(t, ticket_id, tipo_mov, placa) ==
    IF t.id = ticket_id THEN [t EXCEPT !.tipo_mov = tipo_mov, !.placa = placa] ELSE t

\* INSERT INTO tickets_vehiculares (...) VALUES (...): the new row
new_row(id, owner, kind, day, name, fecha, corr, tipo_mov, placa) ==
    [id |-> id, owner |-> owner, captura_owner |-> owner, captura_kind |-> kind,
     captura_day |-> day, captura_name |-> name, fecha |-> fecha, n_corr_dia |-> corr,
     tipo_mov |-> tipo_mov, placa |-> placa]

\* a cascade that closes the gap: later numbers of the same (owner, fecha) move down
delete_tickets_renumbering(owner, kind, day, name) ==
    LET gone == RowsFor(owner, kind, day, name)
    IN  {[t EXCEPT !.n_corr_dia = t.n_corr_dia - Cardinality({g \in gone :
                        g.owner = t.owner /\ g.fecha = t.fecha /\ g.n_corr_dia < t.n_corr_dia})]
            : t \in tickets \ gone}

\* a cascade that matches on the owner alone
delete_tickets_of_owner(owner, kind, day, name) ==
    {t \in tickets : t.captura_owner # owner}

\* DELETE FROM tickets_vehiculares WHERE captura_owner=? AND captura_kind=? AND ...
delete_tickets_for_capture(owner, kind, day, name) ==
    tickets \ RowsFor(owner, kind, day, name)

(* ------------------------------- clock -------------------------------- *)
Tick ==
    /\ today < FirstDay + MaxTicks
    /\ today' = today + 1
    /\ UNCHANGED <<files, tickets, nextId, procs, resp, issued>>

(* ------------------------- the data directory ------------------------ *)
\* DATA_DIR is a plain directory: a file may get into an owner's stream by
\* other means than upload (a copy, a restore), in a directory of any name.
\* list_items and cleanup_old read whatever directories they find there.
Place(owner, kind, bucket, name) ==
    /\ Cardinality(DOMAIN files) < MaxFiles + MaxPlaced
    /\ LET dest == owner_root(owner) \o <<kind, bucket, name>>
       IN  /\ dest \notin DOMAIN files
           /\ files' = [q \in (DOMAIN files) \cup {dest} |-> IF q = dest THEN today ELSE files[q]]
    /\ UNCHANGED <<tickets, nextId, today, procs, resp, issued>>

(* ------------------------- startup: cleanup_old ---------------------- *)
\* the seconds of a day; time.time() is today's midnight plus the seconds since
DaySeconds == 86400

\* time.mktime(time.strptime(name, "%Y-%m-%d")): the midnight of day d
day_ts(d) == d * DaySeconds

\* a bucket that also goes when its midnight is the cutoff itself
is_old_or_at_cutoff(ts, cutoff) == ts <= cutoff

\* if ts < cutoff
is_old(ts, cutoff) == ts < cutoff

\* the day directory that path q lies in: DATA_DIR/<owner_dir>/<kind_dir>/<day_dir>
day_dir_of(q) == SubSeq(q, 1, Len(DATA_DIR) + 3)

\* the files below the day directories that cleanup_old(days) hands to rmtree
cleanup_old(days, now) ==
    IF days <= 0 THEN {}
    ELSE LET cutoff == now - days * DaySeconds
         IN  {q \in DOMAIN files :
                /\ Len(q) > Len(DATA_DIR) + 3
                /\ SubSeq(q, 1, Len(DATA_DIR)) = DATA_DIR
                /\ LET d == strptime_day(q[Len(DATA_DIR) + 3])
                   IN  d # 0 /\ is_old(day_ts(d), cutoff)}

\* _on_start: the process starts (no request is being handled) and sweeps
\* with RETENTION_DAYS = days at `secs` seconds after today's midnight.
\* shutil.rmtree(day_dir, ignore_errors=True): the files of `failing` cannot
\* be removed and stay; the sweep goes on with the rest.
Cleanup(days, secs, failing) ==
    /\ \A p \in Procs : procs[p].pc = "idle"
    /\ LET now == day_ts(today) + secs
           swept == cleanup_old(days, now)
       IN  /\ failing \subseteq swept
           /\ files' = Unlink(swept \ failing)
           /\ resp' = [NoResp EXCEPT !.op = "cleanup", !.days = days, !.now = now, !.failed = failing]
    /\ UNCHANGED <<tickets, nextId, today, procs, issued>>

(* --------------------------- POST /upload ----------------------------- *)
\* The token is taken to be valid (_validate_token passes).  The handler
\* computes the destination, then awaits the request body, then writes.
Uploading == {p \in Procs : procs[p].pc = "upload_write"}

UploadBegin(p, owner, kind, filename) ==
    /\ procs[p].pc = "idle"
    /\ IF kind \notin {captura, ticket}
       THEN /\ resp' = Response("upload", 400, Anonymous, owner)
            /\ UNCHANGED <<files, tickets, nextId, today, procs, issued>>
       ELSE /\ Cardinality(DOMAIN files) + Cardinality(Uploading) < MaxFiles
            /\ LET kind_dir == IF kind = captura THEN capturas ELSE tickets_kind
                   original == secure_name(filename)
                   dest == today_dir(owner, kind_dir) \o <<stamp \o <<"_">> \o original>>
               IN  procs' = [procs EXCEPT ![p] =
                                [Idle EXCEPT !.pc = "upload_write", !.owner = owner, !.dest = resolve(dest)]]
            /\ UNCHANGED <<files, tickets, nextId, today, resp, issued>>

\* is_image: filename.lower().endswith((".jpg", ".jpeg", ".png", ".webp", ".gif"))
ImageSuffixes == {<<".","j","p","g">>, <<".","j","p","e","g">>, <<".","p","n","g">>,
                  <<".","w","e","b","p">>, <<".","g","i","f">>}
is_image(filename) == \E suf \in ImageSuffixes : endswith(lower(filename), suf)

\* the write and the response; make_thumb(dest) runs as a background task
\* after the response and returns at once for a name that is no image name
UploadWrite(p) ==
    /\ procs[p].pc = "upload_write"
    /\ files' = [q \in (DOMAIN files) \cup {procs[p].dest} |->
                    IF q = procs[p].dest THEN today ELSE files[q]]
    /\ resp' = [Response("upload", 200, Anonymous, procs[p].owner) EXCEPT !.path = procs[p].dest]
    /\ procs' = [procs EXCEPT ![p] =
                    IF is_image(procs[p].dest[Len(procs[p].dest)])
                    THEN [procs[p] EXCEPT !.pc = "make_thumb"]
                    ELSE Idle]
    /\ UNCHANGED <<tickets, nextId, today, issued>>

\* make_thumb(dest) for an image name: Pillow writes dest + ".thumb.jpg" next
\* to the file (made), or raises and the exception is swallowed
MakeThumb(p, made) ==
    /\ procs[p].pc = "make_thumb"
    /\ files' = IF made
                THEN [q \in (DOMAIN files) \cup {thumb_of(procs[p].dest)} |->
                        IF q = thumb_of(procs[p].dest) THEN today ELSE files[q]]
                ELSE files
    /\ procs' = [procs EXCEPT ![p] = Idle]
    /\ UNCHANGED <<tickets, nextId, today, resp, issued>>

(* ------------------------- POST /ticket/save -------------------------- *)
\* rows the table may still receive, counting the inserts already under way
Inserting == {p \in Procs : procs[p].pc \in {"save_select", "save_insert"}}

\* require_login, _can_access_owner, _safe_path, os.stat
SaveAuth(p, caller, owner, kind, day, name, tipo_mov, placa, ticket_id) ==
    /\ procs[p].pc = "idle"
    /\ ticket_id = 0 => nextId + Cardinality(Inserting) <= MaxId
    /\ LET sp == _safe_path(owner, kind, day, name)
           status == IF caller.user = NoValue THEN 401
                     ELSE IF ~_can_access_owner(caller, owner) THEN 403
                     ELSE sp.status
       IN  IF status # 200
           THEN /\ resp' = Response("ticket_save", status, caller, owner)
                /\ UNCHANGED <<files, tickets, nextId, today, procs, issued>>
           ELSE /\ procs' = [procs EXCEPT ![p] =
                        [Idle EXCEPT !.pc = IF ticket_id # 0 THEN "save_update" ELSE "save_select",
                                     !.owner = owner, !.kind = kind, !.day = day, !.name = name,
                                     !.fecha = isoformat(files[sp.path]),
                                     !.tipo_mov = tipo_mov, !.placa = placa,
                                     !.ticket_id = ticket_id]]
                /\ UNCHANGED <<files, tickets, nextId, today, resp, issued>>

\* RedirectResponse to /ticket/print/<tid>
SaveDone(p, tid) ==
    [NoResp EXCEPT !.op = "ticket_save", !.status = 302, !.req_owner = procs[p].owner,
                   !.owner = procs[p].owner, !.tid = tid]

\* if ticket_id: UPDATE ... WHERE id=?; commit; redirect to /ticket/print/<ticket_id>
SaveUpdate(p) ==
    /\ procs[p].pc = "save_update"
    /\ tickets' = {update_row(t, procs[p].ticket_id, procs[p].tipo_mov, procs[p].placa) : t \in tickets}
    /\ resp' = SaveDone(p, procs[p].ticket_id)
    /\ procs' = [procs EXCEPT ![p] = Idle]
    /\ UNCHANGED <<files, nextId, today, issued>>

\* else: SELECT MAX(n_corr_dia); corr = last_corr + 1
SaveSelect(p) ==
    /\ procs[p].pc = "save_select"
    /\ procs' = [procs EXCEPT ![p].pc = "save_insert",
                              ![p].corr = last_corr(procs[p].owner, procs[p].fecha) + 1]
    /\ UNCHANGED <<files, tickets, nextId, today, resp, issued>>

\* INSERT; commit; tid = cur.lastrowid; redirect to /ticket/print/<tid>
SaveInsert(p) ==
    /\ procs[p].pc = "save_insert"
    /\ tickets' = tickets \cup {new_row(nextId, procs[p].owner, procs[p].kind, procs[p].day,
                                        procs[p].name, procs[p].fecha, procs[p].corr,
                                        procs[p].tipo_mov, procs[p].placa)}
    /\ nextId' = nextId + 1
    /\ resp' = SaveDone(p, nextId)
    /\ procs' = [procs EXCEPT ![p] = Idle]
    /\ issued' = IF RowsFor(procs[p].owner, procs[p].kind, procs[p].day, procs[p].name) = {}
                 THEN issued \cup {[owner |-> procs[p].owner, fecha |-> procs[p].fecha,
                                    n_corr_dia |-> procs[p].corr,
                                    path |-> resolve(DATA_DIR \o
                                                <<secure_name(procs[p].owner), procs[p].kind,
                                                  secure_name(procs[p].day), secure_name(procs[p].name)>>)]}
                 ELSE issued
    /\ UNCHANGED <<files, today>>

(* ------------------------- DELETE /api/delete ------------------------- *)
\* require_role(admin), _safe_path, unlink the file and its thumbnail, then
\* delete_tickets_for_capture with the request's own owner, kind, day, name.
\* The handler is one step: between its unlink and its DELETE another request
\* either fails in _safe_path or sees what it would have seen before the step.
ApiDelete(caller, owner, kind, day, name) ==
    LET sp == _safe_path(owner, kind, day, name)
        status == IF caller.user = NoValue THEN 401
                  ELSE IF caller.role # "admin" THEN 403
                  ELSE sp.status
    IN  IF status # 200
        THEN /\ resp' = Response("delete", status, caller, owner)
             /\ UNCHANGED <<files, tickets, nextId, today, procs, issued>>
        ELSE /\ files' = Unlink({sp.path, thumb_of(sp.path)})
             /\ tickets' = delete_tickets_for_capture(owner, kind, day, name)
             /\ resp' = [Response("delete", 200, caller, owner) EXCEPT !.owner = owner, !.path = sp.path]
             /\ UNCHANGED <<nextId, today, procs, issued>>

(* --------------------------- item enumerator -------------------------- *)
\* the characters of the model in the order Python compares them (code points)
CodePoints == <<" ", "-", ".", "/">> \o Digits \o UpperAlpha \o <<"_">> \o LowerAlpha
ord(c) == IndexIn(CodePoints, c)

\* a < b for two strings, as Python compares str
str_lt(a, b) ==
    \E i \in 1..(Len(a) + 1) :
        /\ i <= Len(b)
        /\ SubSeq(a, 1, i - 1) = SubSeq(b, 1, i - 1)
        /\ (i = Len(a) + 1 \/ (a[i] # b[i] /\ ord(a[i]) < ord(b[i])))

\* sorted(S, reverse=True) for a set of strings
RECURSIVE sorted_reverse(_)
sorted_reverse(S) ==
    IF S = {} THEN <<>>
    ELSE LET x == CHOOSE x \in S : \A y \in S : ~str_lt(x, y)
         IN  <<x>> \o sorted_reverse(S \ {x})

\* parse_ymd: the day number of a bucket name, 0 when strptime raises (dates
\* outside January 2024 are not among the names of the model)
parse_ymd(s) == strptime_day(s)

persona == <<"p","e","r","s","o","n","a">>
AutoWords == {<<"a","u","t","o">>, <<"c","a","r">>, <<"v","e","h","i","c">>,
              <<"t","r","u","c","k">>, <<"b","u","s">>, <<"c","a","m","i","o","n">>}
AnimalWords == {<<"a","n","i","m","a","l">>, <<"d","o","g">>, <<"c","a","t">>, <<"b","i","r","d">>}
PERSONA == <<"P","E","R","S","O","N","A">>
AUTO == <<"A","U","T","O">>
ANIMAL == <<"A","N","I","M","A","L">>
OTROS == <<"O","T","R","O","S">>

\* a classifier that looks for the animal keywords before the vehicle keywords
_category_animal_first(name) ==
    LET n == lower(name)
    IN  IF contains(n, persona) THEN PERSONA
        ELSE IF \E x \in AnimalWords : contains(n, x) THEN ANIMAL
        ELSE IF \E x \in AutoWords : contains(n, x) THEN AUTO
        ELSE OTROS

_category_from_name(name) ==
    LET n == lower(name)
    IN  IF contains(n, persona) THEN PERSONA
        ELSE IF \E x \in AutoWords : contains(n, x) THEN AUTO
        ELSE IF \E x \in AnimalWords : contains(n, x) THEN ANIMAL
        ELSE OTROS

\* the directories directly below dir that hold something, and the files directly in dir
SubDirs(dir) ==
    {q[Len(dir) + 1] : q \in {r \in DOMAIN files : Len(r) >= Len(dir) + 2 /\ SubSeq(r, 1, Len(dir)) = dir}}
FilesIn(dir) ==
    {q[Len(q)] : q \in {r \in DOMAIN files : Len(r) = Len(dir) + 1 /\ SubSeq(r, 1, Len(dir)) = dir}}

files_prefix == <<"f","i","l","e","s">>

\* the items of one day bucket: files in descending name order, filtered by cat and q
RECURSIVE day_items(_, _, _, _, _, _)
day_items(owner, kind, day_name, names, qnorm, cat) ==
    IF names = <<>> THEN <<>>
    ELSE LET name == Head(names)
             c == _category_from_name(name)
             rest == day_items(owner, kind, day_name, Tail(names), qnorm, cat)
         IN  IF cat # NoValue /\ c # cat THEN rest
             ELSE IF qnorm # NoValue /\ ~contains(lower(name), qnorm) /\ ~contains(lower(c), qnorm) THEN rest
             ELSE <<[date |-> isoformat(parse_ymd(day_name)), name |-> name,
                     url |-> <<files_prefix, secure_name(owner), kind, day_name, name>>,
                     kind |-> kind, cat |-> c, owner |-> owner]>> \o rest

\* list_items: buckets in descending name order, skipping names that do not
\* parse and dates outside [start, end] (0 stands for no bound)
RECURSIVE bucket_items(_, _, _, _, _, _, _, _)
bucket_items(owner, kind, base, day_names, start, end, qnorm, cat) ==
    IF day_names = <<>> THEN <<>>
    ELSE LET day_name == Head(day_names)
             d == parse_ymd(day_name)
             rest == bucket_items(owner, kind, base, Tail(day_names), start, end, qnorm, cat)
         IN  IF d = 0 THEN rest
             ELSE IF start # 0 /\ d < start THEN rest
             ELSE IF end # 0 /\ d > end THEN rest
             ELSE day_items(owner, kind, day_name, sorted_reverse(FilesIn(base \o <<day_name>>)), qnorm, cat)
                  \o rest

list_items(owner, kind, start, end, q, cat) ==
    LET base == owner_root(owner) \o <<IF kind = capturas THEN capturas ELSE tickets_kind>>
    IN  bucket_items(owner, kind, base, sorted_reverse(SubDirs(base)), start, end,
                     lower(strip(q)), upper(strip(cat)))

\* attach_tickets: the ticket of each item (id 0 stands for None), filtered by status
RECURSIVE attach_tickets(_, _, _, _)
attach_tickets(owner, kind, items, status) ==
    IF items = <<>> THEN <<>>
    ELSE LET it == Head(items)
             t == get_ticket_for_capture(owner, kind, it.date, it.name)
             tk == IF t = {} THEN [id |-> 0, n_corr_dia |-> 0]
                   ELSE LET r == CHOOSE r \in t : TRUE IN [id |-> r.id, n_corr_dia |-> r.n_corr_dia]
             rest == attach_tickets(owner, kind, Tail(items), status)
         IN  IF lower(status) = <<"p","e","n","d","i","e","n","t","e","s">> /\ tk.id # 0 THEN rest
             ELSE IF lower(status) = <<"c","o","m","p","l","e","t","o","s">> /\ tk.id = 0 THEN rest
             ELSE <<[date |-> it.date, name |-> it.name, url |-> it.url, kind |-> it.kind,
                     cat |-> it.cat, owner |-> it.owner, ticket |-> tk]>> \o rest

\* the file an item's url names
ItemPath(it) == resolve(DATA_DIR \o SubSeq(it.url, 2, Len(it.url)))

(* ----------------------------- read requests -------------------------- *)
\* the effective owner of api_list and export_csv
scope_owner(caller, owner) ==
    IF caller.role # "admin" THEN caller.user
    ELSE IF owner # NoValue THEN owner ELSE caller.user

Categories == {PERSONA, AUTO, ANIMAL, OTROS}

\* the number of items of a category
count_cat(items, c) == Cardinality({i \in 1..Len(items) : items[i].cat = c})

\* a tally that has a key only for the categories it met
category_counts_seen(items) ==
    [c \in {items[i].cat : i \in 1..Len(items)} |-> count_cat(items, c)]

\* counts = {"PERSONA": 0, "AUTO": 0, "ANIMAL": 0, "OTROS": 0}, then one more
\* for the category of every item
category_counts(items) ==
    [c \in Categories \cup {items[i].cat : i \in 1..Len(items)} |-> count_cat(items, c)]

\* a slice that starts one page late
page_items_shifted(items_all, page, limit) ==
    slice(items_all, page * limit, page * limit + limit)

\* start_idx = (page - 1) * limit; items_all[start_idx : start_idx + limit]
page_items(items_all, page, limit) ==
    slice(items_all, (page - 1) * limit, (page - 1) * limit + limit)

\* s = parse_ymd(start) if start else None (0 stands for None)
date_bound(s) == IF s = NoValue THEN 0 ELSE parse_ymd(s)

\* the filtered, ordered and annotated list of a listing request
items_all_of(owner, kind, query) ==
    attach_tickets(owner, kind,
                   list_items(owner, kind, date_bound(query.start), date_bound(query.end),
                              query.q, query.cat),
                   query.status)

\* GET /api/list: 401 without a session, an unhandled ValueError (500) when a
\* date filter does not parse, else one page of the list with its totals
ApiList(caller, owner, kind, query, page, limit) ==
    IF caller.user = NoValue
    THEN /\ resp' = Response("list", 401, caller, owner)
         /\ UNCHANGED <<files, tickets, nextId, today, procs, issued>>
    ELSE IF \/ (query.start # NoValue /\ parse_ymd(query.start) = 0)
            \/ (query.end # NoValue /\ parse_ymd(query.end) = 0)
    THEN /\ resp' = [Response("list", 500, caller, owner) EXCEPT !.query = query]
         /\ UNCHANGED <<files, tickets, nextId, today, procs, issued>>
    ELSE LET eff == scope_owner(caller, owner)
             items_all == items_all_of(eff, kind, query)
             total == Len(items_all)
         IN  /\ resp' = [Response("list", 200, caller, owner) EXCEPT
                            !.owner = eff,
                            !.query = query,
                            !.page = page,
                            !.limit = limit,
                            !.total = total,
                            !.pages = (total + limit - 1) \div limit,
                            !.items = page_items(items_all, page, limit),
                            !.counts = category_counts(items_all)]
             /\ UNCHANGED <<files, tickets, nextId, today, procs, issued>>

\* GET /api/export.csv: one row for every item of the annotated list
ExportCsv(caller, owner, kind) ==
    IF caller.user = NoValue
    THEN /\ resp' = Response("export", 401, caller, owner)
         /\ UNCHANGED <<files, tickets, nextId, today, procs, issued>>
    ELSE LET eff == scope_owner(caller, owner)
         IN  /\ resp' = [Response("export", 200, caller, owner) EXCEPT
                            !.owner = eff,
                            !.items = attach_tickets(eff, kind,
                                         list_items(eff, kind, 0, 0, NoValue, NoValue), NoValue)]
             /\ UNCHANGED <<files, tickets, nextId, today, procs, issued>>

\* the status of a request that must be logged in, may touch owner, and names a file
file_request_status(caller, owner, kind, day, name) ==
    IF caller.user = NoValue THEN 401
    ELSE IF ~_can_access_owner(caller, owner) THEN 403
    ELSE _safe_path(owner, kind, day, name).status

\* GET /files/{owner}/{kind}/{day}/{name}
GetFile(caller, owner, kind, day, name) ==
    LET status == file_request_status(caller, owner, kind, day, name)
    IN  /\ resp' = IF status # 200 THEN Response("file", status, caller, owner)
                   ELSE [Response("file", 200, caller, owner) EXCEPT
                            !.owner = owner, !.path = _safe_path(owner, kind, day, name).path]
        /\ UNCHANGED <<files, tickets, nextId, today, procs, issued>>

\* GET /ticket/form: the form of the capture, filled from its ticket when it has one
TicketForm(caller, owner, kind, day, name) ==
    LET status == file_request_status(caller, owner, kind, day, name)
        t == get_ticket_for_capture(owner, kind, day, name)
    IN  /\ resp' = IF status # 200 THEN Response("ticket_form", status, caller, owner)
                   ELSE [Response("ticket_form", 200, caller, owner) EXCEPT
                            !.owner = owner,
                            !.path = _safe_path(owner, kind, day, name).path,
                            !.tid = IF t = {} THEN 0 ELSE (CHOOSE r \in t : TRUE).id]
        /\ UNCHANGED <<files, tickets, nextId, today, procs, issued>>

\* ORDER BY n_corr_dia ASC (rows with equal numbers in id order)
RECURSIVE rows_by_corr(_)
rows_by_corr(S) ==
    IF S = {} THEN <<>>
    ELSE LET r == CHOOSE r \in S : \A o \in S :
                      r.n_corr_dia < o.n_corr_dia \/ (r.n_corr_dia = o.n_corr_dia /\ r.id <= o.id)
         IN  <<r>> \o rows_by_corr(S \ {r})

\* sum(1 for r in rows_db if (r["tipo_mov"] or "").upper() == m)
count_mov(rows_db, m) == Cardinality({i \in 1..Len(rows_db) : upper(rows_db[i].tipo_mov) = m})

\* GET /reporte/dia: the rows of (owner, fecha) in ascending number order
ReporteDia(caller, owner, fecha) ==
    LET status == IF caller.user = NoValue THEN 401
                  ELSE IF ~_can_access_owner(caller, owner) THEN 403 ELSE 200
    IN  /\ resp' = IF status # 200 THEN Response("report", status, caller, owner)
                   ELSE LET rows_db == rows_by_corr({t \in tickets : t.owner = owner /\ t.fecha = fecha})
                        IN  [Response("report", 200, caller, owner) EXCEPT
                                !.owner = owner,
                                !.fecha = fecha,
                                !.items = rows_db,
                                !.total = Len(rows_db),
                                !.counts = [m \in {ENTRADA, SALIDA} |-> count_mov(rows_db, m)]]
        /\ UNCHANGED <<files, tickets, nextId, today, procs, issued>>

(* ------------------------ requests of the model ----------------------- *)
FileNames == {<<"v">>, <<"w">>}
StoredName(f) == stamp \o <<"_">> \o secure_name(f)
Names == {StoredName(f) : f \in FileNames}
TodayName == isoformat(FirstDay)
\* the free-text fields travel together; one valid and one invalid movement type
Fields == {[tipo_mov |-> ENTRADA, placa |-> <<"P","1">>], [tipo_mov |-> <<"X">>, placa |-> <<"P","2">>]}

(***************************************************************************)
(* Spec: the ticket store under concurrent requests of one owner's panel.  *)
(***************************************************************************)
Next ==
    \/ \E p \in Procs, f \in FileNames : UploadBegin(p, cliente1, captura, f)
    \/ \E p \in Procs : UploadWrite(p)
    \/ \E p \in Procs, n \in Names, fl \in Fields, id \in 0..MaxId :
            SaveAuth(p, Session(admin), cliente1, capturas, TodayName, n, fl.tipo_mov, fl.placa, id)
    \/ \E p \in Procs : SaveUpdate(p)
    \/ \E p \in Procs : SaveSelect(p)
    \/ \E p \in Procs : SaveInsert(p)
    \/ \E n \in Names : ApiDelete(Session(admin), cliente1, capturas, TodayName, n)
    \/ ReporteDia(Session(admin), cliente1, TodayName)

Spec == Init /\ [][Next]_vars

(***************************************************************************)
(* SpecApi: every request of the panel, one at a time, by every kind of    *)
(* caller and for owners that secure_name maps to the same or to a parent  *)
(* directory.                                                              *)
(***************************************************************************)
DefaultPage == 1
DefaultLimit == 50

ApiCallers == {Session(admin), Session(cliente1), Session(cliente2), Anonymous}
\* two owners that secure_name maps to one directory
Tenants == {cliente1, cliente2}
\* and an owner that names the parent directory
ApiOwners == Tenants \cup {DotDot}
ApiName == StoredName(<<"v">>)

NextApi ==
    \/ \E o \in ApiOwners : UploadBegin(1, o, captura, <<"v">>)
    \/ UploadWrite(1)
    \/ \E c \in ApiCallers, o \in Tenants :
            SaveAuth(1, c, o, capturas, TodayName, ApiName, ENTRADA, <<"P","1">>, 0)
    \/ SaveSelect(1)
    \/ SaveInsert(1)
    \/ \E c \in ApiCallers, o \in Tenants : ApiDelete(c, o, capturas, TodayName, ApiName)
    \/ \E c \in ApiCallers, o \in Tenants \cup {NoValue} : ApiList(c, o, capturas, NoQuery, DefaultPage, DefaultLimit)
    \/ \E c \in ApiCallers, o \in Tenants \cup {NoValue} : ExportCsv(c, o, capturas)
    \/ \E c \in ApiCallers, o \in ApiOwners : GetFile(c, o, capturas, TodayName, ApiName)
    \/ \E c \in ApiCallers, o \in Tenants : TicketForm(c, o, capturas, TodayName, ApiName)
    \/ \E c \in ApiCallers, o \in Tenants : ReporteDia(c, o, TodayName)

SpecApi == Init /\ [][NextApi]_vars

(***************************************************************************)
(* SpecList: the listing of one owner's stream, with files whose names     *)
(* carry the category keywords and with directories that upload did not    *)
(* create.                                                                 *)
(***************************************************************************)
ListFileNames == {<<"P","e","r","s","o","n","a","-","c","a","r">>, <<"C","a","t","_","B","u","s">>,
                  <<"d","o","g">>, <<"v">>}
\* the day before FirstDay written without zero padding, and a name that is no date
UnpaddedYesterday == <<"2","0","2","4","-","1","-", Digits[FirstDay]>>
tmp == <<"t","m","p">>
ForeignBuckets == {UnpaddedYesterday, tmp}
ListQueries ==
    {NoQuery,
     [NoQuery EXCEPT !.q = <<" ","D","O","G"," ">>],
     [NoQuery EXCEPT !.q = <<"o","t","r","o","s">>],
     [NoQuery EXCEPT !.cat = <<" ","a","u","t","o">>],
     [NoQuery EXCEPT !.start = TodayName],
     [NoQuery EXCEPT !.end = UnpaddedYesterday],
     [NoQuery EXCEPT !.start = tmp]}

NextList ==
    \/ \E f \in ListFileNames : UploadBegin(1, cliente1, captura, f)
    \/ UploadWrite(1)
    \/ \E b \in ForeignBuckets : Place(cliente1, capturas, b, <<"z">>)
    \/ \E pg \in 1..MaxPage, lm \in 1..MaxLimit :
            ApiList(Session(admin), cliente1, capturas, NoQuery, pg, lm)
    \/ \E qy \in ListQueries :
            ApiList(Session(admin), cliente1, capturas, qy, DefaultPage, DefaultLimit)

SpecList == Init /\ [][NextList]_vars

(***************************************************************************)
(* SpecDays: one owner's stream over two days: uploads whose body arrives  *)
(* before or after midnight, tickets for them, files placed in foreign     *)
(* directories, and restarts of the process with a retention of days.      *)
(***************************************************************************)
RetentionChoices == {0 - 1, 0, 1, 2}
ClockChoices == {0, DaySeconds \div 2}
V == <<"v">>

NextDays ==
    \/ UploadBegin(1, cliente1, captura, V)
    \/ UploadWrite(1)
    \/ Tick
    \/ \E b \in ForeignBuckets : Place(cliente1, capturas, b, <<"z">>)
    \/ SaveAuth(1, Session(admin), cliente1, capturas, TodayName, StoredName(V), ENTRADA, <<"P","1">>, 0)
    \/ SaveSelect(1)
    \/ SaveInsert(1)
    \/ \E days \in RetentionChoices, secs \in ClockChoices, failing \in {{}} \cup {{q} : q \in DOMAIN files} :
            Cleanup(days, secs, failing)
    \/ ReporteDia(Session(admin), cliente1, TodayName)

SpecDays == Init /\ [][NextDays]_vars

(***************************************************************************)
(* SpecItems: one owner's stream with an image and its thumbnail, a file   *)
(* in an unpadded bucket, saves that spell the capture as stored or with a *)
(* character that secure_name replaces, deletes and unfiltered listings.   *)
(***************************************************************************)
Photo == <<"p",".","j","p","g">>
\* the stored name of V with a blank where upload wrote "_"
SpacedName == stamp \o <<" ">> \o V
SaveKeys == {[day |-> TodayName, name |-> StoredName(V)],
             [day |-> TodayName, name |-> SpacedName],
             [day |-> UnpaddedYesterday, name |-> <<"z">>]}

NextItems ==
    \/ \E f \in {V, Photo} : UploadBegin(1, cliente1, captura, f)
    \/ UploadWrite(1)
    \/ \E made \in BOOLEAN : MakeThumb(1, made)
    \/ Place(cliente1, capturas, UnpaddedYesterday, <<"z">>)
    \/ \E k \in SaveKeys :
            SaveAuth(1, Session(admin), cliente1, capturas, k.day, k.name, ENTRADA, <<"P","1">>, 0)
    \/ SaveSelect(1)
    \/ SaveInsert(1)
    \/ ApiDelete(Session(admin), cliente1, capturas, TodayName, StoredName(V))
    \/ ApiList(Session(admin), cliente1, capturas, NoQuery, DefaultPage, DefaultLimit)

SpecItems == Init /\ [][NextItems]_vars

(* ------------------------------- claims ------------------------------- *)
CaptureKey(t) == <<t.captura_owner, t.captura_kind, t.captura_day, t.captura_name>>

\* the file that the save of row t resolved its capture to
CapturePath(t) ==
    resolve(DATA_DIR \o <<secure_name(t.captura_owner), t.captura_kind,
                          secure_name(t.captura_day), secure_name(t.captura_name)>>)

\* C1: at most one Ticket Record exists for any capture key (owner, stream,
\* day, name), whatever saves and deletions have happened.
C1_AtMostOneRecordPerCapture ==
    \A t \in tickets : \A u \in tickets : CaptureKey(t) = CaptureKey(u) => t.id = u.id

\* C2: no two Ticket Records of different captures of the same (owner, date)
\* hold the same sequence number, under any interleaving of saves.
C2_SequenceNumbersDistinct ==
    \A t \in tickets : \A u \in tickets :
        (t.owner = u.owner /\ t.fecha = u.fecha /\ CaptureKey(t) # CaptureKey(u))
            => t.n_corr_dia # u.n_corr_dia

\* C7: every stored record's movement type is exactly ENTRADA or SALIDA (a
\* save with any other movement type is rejected and stores nothing).
C7_MovementTypeValid ==
    \A t \in tickets : t.tipo_mov \in {ENTRADA, SALIDA}

\* C8: a save that completes for a capture that already has a Ticket Record
\* inserts nothing, returns the existing id, keeps id and sequence number of
\* that record, replaces its fields, and leaves every other record as it was.
C8_ResaveUpdatesInPlace ==
    [][\A p \in Procs :
        LET r == procs[p]
            existing == RowsFor(r.owner, r.kind, r.day, r.name)
        IN  (r.pc \in {"save_update", "save_insert"} /\ procs'[p].pc = "idle" /\ existing # {})
            => /\ resp'.tid \in {t.id : t \in existing}
               /\ {t.id : t \in tickets'} = {t.id : t \in tickets}
               /\ \A t \in tickets : \A u \in tickets' :
                    u.id = t.id =>
                        /\ u.n_corr_dia = t.n_corr_dia
                        /\ IF t \in existing
                           THEN u.tipo_mov = r.tipo_mov /\ u.placa = r.placa
                           ELSE u = t
      ]_vars

\* C9: as long as no record was deleted and every record belongs to a
\* different capture, the sequence numbers of each (owner, date) are exactly
\* 1..n for its n records.
C9_ConsecutiveFromOne ==
    (/\ Cardinality(tickets) = nextId - 1
     /\ \A t \in tickets : \A u \in tickets : CaptureKey(t) = CaptureKey(u) => t = u)
    => \A t \in tickets :
         LET group == {u \in tickets : u.owner = t.owner /\ u.fecha = t.fecha}
         IN  {u.n_corr_dia : u \in group} = 1..Cardinality(group)

\* C10: no step changes the sequence number of a record that stays in the
\* table: saves for other captures, re-saves, deletions and the daily report
\* leave it as assigned, and a deletion leaves a gap.
C10_SequenceNumberNeverChanges ==
    [][\A t \in tickets : \A u \in tickets' : u.id = t.id => u.n_corr_dia = t.n_corr_dia]_vars

\* a record numbered 2 is still numbered 2 after the record numbered 1 was deleted
C10_Witness ==
    /\ resp.op = "delete" /\ resp.status = 200
    /\ \E t \in tickets : t.n_corr_dia = 2
    /\ ~\E t \in tickets : t.n_corr_dia = 1

ScopedOps == {"list", "export", "file", "ticket_form", "ticket_save", "report"}

\* C3 (as claimed): a cliente who names another owner gets 403 on every
\* owner-scoped operation.
C3_ForbiddenOnEveryOperation ==
    (resp.op \in ScopedOps /\ resp.role = "cliente"
        /\ resp.req_owner # NoValue /\ resp.req_owner # resp.user)
    => resp.status = 403

\* C3 (amended): a cliente who names another owner gets 403 on file fetch,
\* ticket form, ticket save and daily report; listing and CSV export ignore
\* the owner a cliente names and serve the cliente's own owner, as they do
\* when no owner is named.
C3_ForbiddenOrOwnOwner ==
    resp.role = "cliente" =>
        /\ (resp.op \in {"file", "ticket_form", "ticket_save", "report"}
                /\ resp.req_owner # NoValue /\ resp.req_owner # resp.user)
           => resp.status = 403
        /\ resp.op \in {"list", "export"}
           => (resp.status = 200 /\ resp.owner = resp.user)

\* a cliente named another owner in a ticket save and was refused
C3_Witness ==
    /\ resp.op = "ticket_save" /\ resp.role = "cliente"
    /\ resp.req_owner # NoValue /\ resp.req_owner # resp.user
    /\ resp.status = 403

\* C4: a listing with effective owner A returns no item whose file lies in
\* the subtree of another owner B.
C4_ListingIsolation ==
    (resp.op = "list" /\ resp.status = 200 /\ resp.owner \in Tenants)
    => \A i \in 1..Len(resp.items) : \A B \in Tenants \ {resp.owner} :
           ~IsStrictDescendant(ItemPath(resp.items[i]), owner_root(B))

\* the inputs the resolver is tried on in every state
ResolverOwners == ApiOwners \cup {Dot}
ResolverKinds == {capturas, tickets_kind, captura}
ResolverDays == {TodayName, Dot, DotDot}
ResolverNames == {ApiName, DotDot, <<".", ".", "/", "v">>, <<"/", "e", "t", "c">>}

\* C5: every path the resolver returns lies strictly below the owner's
\* directory and strictly below the storage root, for every owner, day and name.
C5_ResolvedPathBelowOwnerRoot ==
    \A o \in ResolverOwners, k \in ResolverKinds, d \in ResolverDays, n \in ResolverNames :
        LET r == _safe_path(o, k, d, n)
        IN  r.status = 200 =>
                /\ IsStrictDescendant(r.path, owner_root(o))
                /\ IsStrictDescendant(r.path, DATA_DIR)

\* C6: right after a capture file was deleted, no Ticket Record is left whose
\* capture is that file.
C6_NoRecordAfterDelete ==
    (resp.op = "delete" /\ resp.status = 200)
    => \A t \in tickets : CapturePath(t) # resp.path

\* the key a served delete request named: the requests of Spec spell kind, day
\* and name as they are stored, so they can be read off the resolved path
DeleteKey(r) ==
    <<r.req_owner, r.path[Len(r.path) - 2], r.path[Len(r.path) - 1], r.path[Len(r.path)]>>

\* C11: the cascade of a capture deletion removes exactly the Ticket Records
\* with the given (owner, stream, day, name) and leaves every other record as
\* it was; when no record matches it changes nothing, and running it again
\* on its own result would remove nothing.
C11_DeleteRemovesExactlyTheKey ==
    [][(resp'.op = "delete" /\ resp'.status = 200 /\ DOMAIN files' # DOMAIN files)
        => /\ tickets' = {t \in tickets : CaptureKey(t) # DeleteKey(resp')}
           /\ (\A t \in tickets : CaptureKey(t) # DeleteKey(resp')) => tickets' = tickets
           /\ {t \in tickets' : CaptureKey(t) # DeleteKey(resp')} = tickets'
      ]_vars

\* a delete was served while two records had been stored, and the record of
\* the other capture is still there
C11_Witness ==
    /\ resp.op = "delete" /\ resp.status = 200
    /\ nextId = 3 /\ Cardinality(tickets) = 1
    /\ \A t \in tickets : CapturePath(t) # resp.path

(* ----------------------------- listing claims ------------------------- *)
\* a listing request was just served
ListStep == resp'.op = "list" /\ resp'.status = 200 /\ resp' # resp

\* the whole filtered, ordered list behind a served listing (a listing
\* changes neither the files nor the tickets)
FullList(r) == items_all_of(r.owner, capturas, r.query)

\* pages j..last of a list, one after the other
RECURSIVE concat_pages(_, _, _, _)
concat_pages(full, P, j, last) ==
    IF j > last THEN <<>>
    ELSE page_items(full, j, P) \o concat_pages(full, P, j + 1, last)

\* C12: page k of a list of N items with page size P holds exactly the items
\* at positions [(k-1)*P, k*P); pages 1..ceil(N/P) one after the other give
\* the list back; a page beyond the last is empty and totalCount is still N.
C12_PageIsItsSliceOfTheList ==
    [][ListStep =>
        \A full \in {FullList(resp')} :
        LET N == Len(full)
            P == resp'.limit
            first == (resp'.page - 1) * P
            n == IF N - first >= P THEN P ELSE IF N - first > 0 THEN N - first ELSE 0
            last == (N + P - 1) \div P
        IN  /\ resp'.total = N
            /\ resp'.items = [i \in 1..n |-> full[first + i]]
            /\ concat_pages(full, P, 1, last) = full
            /\ \A j \in (last + 1)..(MaxPage + 1) : page_items(full, j, P) = <<>>
            /\ resp'.page > last => resp'.items = <<>>
      ]_vars

\* the second page of a list of three items, two to a page
C12_Witness ==
    /\ resp.op = "list" /\ resp.status = 200
    /\ resp.total = 3 /\ resp.limit = 2 /\ resp.page = 2 /\ Len(resp.items) = 1

\* C13: the category counts of a listing have exactly the keys PERSONA, AUTO,
\* ANIMAL and OTROS, each counts the items of its category in the whole
\* filtered list (not in the page), and the four add up to totalCount.
C13_CountsAreOfTheWholeList ==
    [][ListStep =>
        \A full \in {FullList(resp')} :
            /\ DOMAIN resp'.counts = {PERSONA, AUTO, ANIMAL, OTROS}
            /\ \A c \in {PERSONA, AUTO, ANIMAL, OTROS} :
                   resp'.counts[c] = Cardinality({i \in 1..Len(full) : full[i].cat = c})
            /\ resp'.counts[PERSONA] + resp'.counts[AUTO] + resp'.counts[ANIMAL]
                 + resp'.counts[OTROS] = resp'.total
      ]_vars

\* a page of one item out of three, with a category that has no item
C13_Witness ==
    /\ resp.op = "list" /\ resp.status = 200
    /\ resp.total = 3 /\ Len(resp.items) = 1
    /\ resp.counts[PERSONA] = 1 /\ resp.counts[ANIMAL] = 0

\* the keywords as the classification rule lists them
C14_AutoKeywords == {<<"a","u","t","o">>, <<"c","a","r">>, <<"v","e","h","i","c">>, <<"t","r","u","c","k">>, <<"b","u","s">>, <<"c","a","m","i","o","n">>}
C14_AnimalKeywords == {<<"a","n","i","m","a","l">>, <<"d","o","g">>, <<"c","a","t">>, <<"b","i","r","d">>}
C14_Scenarios ==
    {<<<<"p","e","r","s","o","n","a","_","0","0","0","1",".","j","p","g">>, PERSONA>>,
     <<<<"c","a","m","i","o","n","_","1","4",".","j","p","g">>, AUTO>>,
     <<<<"r","a","n","d","o","m",".","j","p","g">>, OTROS>>,
     <<<<"B","I","R","D",".","P","N","G">>, ANIMAL>>}

\* the category the rule gives a name: the first group with a keyword in the
\* lower-cased name, in the order PERSONA, AUTO, ANIMAL, else OTROS
C14_Category(name) ==
    LET n == lower(name)
    IN  IF contains(n, <<"p","e","r","s","o","n","a">>) THEN PERSONA
        ELSE IF \E w \in C14_AutoKeywords : contains(n, w) THEN AUTO
        ELSE IF \E w \in C14_AnimalKeywords : contains(n, w) THEN ANIMAL
        ELSE OTROS

\* C14: every listed item carries the category of the classification rule
\* (case-insensitive substring match, PERSONA before AUTO before ANIMAL, else
\* OTROS), and the classifier gives the rule's category to the scenario names.
C14_ClassifyByPrecedence ==
    [][ListStep =>
        /\ \A i \in 1..Len(resp'.items) :
               resp'.items[i].cat = C14_Category(resp'.items[i].name)
        /\ \A sc \in C14_Scenarios :
               _category_from_name(sc[1]) = sc[2] /\ C14_Category(sc[1]) = sc[2]
      ]_vars

\* a listed name with a vehicle and an animal keyword is AUTO, and one with
\* 'persona' and a vehicle keyword is PERSONA
C14_Witness ==
    /\ resp.op = "list" /\ resp.status = 200
    /\ \E i \in 1..Len(resp.items) :
          /\ resp.items[i].cat = AUTO
          /\ contains(lower(resp.items[i].name), <<"c","a","t">>)
    /\ \E i \in 1..Len(resp.items) :
          /\ resp.items[i].cat = PERSONA
          /\ contains(lower(resp.items[i].name), <<"c","a","r">>)

\* C19: the items of a listing come in descending date of their Day Bucket
\* and, within one date, in descending file name, whatever parsable names the
\* bucket directories have.
C19_DescendingDateThenName ==
    [][ListStep =>
        \A i \in 1..Len(resp'.items) : \A j \in 1..Len(resp'.items) :
            i < j =>
                LET a == resp'.items[i]
                    b == resp'.items[j]
                IN  \/ parse_ymd(a.date) > parse_ymd(b.date)
                    \/ (parse_ymd(a.date) = parse_ymd(b.date) /\ ~str_lt(a.name, b.name))
      ]_vars

\* the files of an owner's stream as (bucket name, file name)
StreamFiles(owner, kind) ==
    LET base == owner_root(owner) \o <<kind>>
    IN  UNION {{<<b, n>> : n \in FilesIn(base \o <<b>>)} : b \in SubDirs(base)}

\* the files that list_items returns for a query
ListedFiles(owner, kind, query) ==
    LET items == list_items(owner, kind, date_bound(query.start), date_bound(query.end),
                            query.q, query.cat)
    IN  {<<items[i].url[4], items[i].name>> : i \in 1..Len(items)}

\* the files a query with text q and category cat asks for
WantedFiles(owner, kind, query, q, cat) ==
    {f \in StreamFiles(owner, kind) :
        LET d == parse_ymd(f[1])
            c == _category_from_name(f[2])
        IN  /\ d # 0
            /\ query.start # NoValue => parse_ymd(query.start) <= d
            /\ query.end # NoValue => d <= parse_ymd(query.end)
            /\ cat # NoValue => c = upper(cat)
            /\ q # NoValue => (contains(lower(f[2]), lower(q)) \/ contains(lower(c), lower(q)))}

\* the queries whose date bounds parse
ParsableQueries ==
    {qy \in ListQueries : (qy.start # NoValue => parse_ymd(qy.start) # 0)
                          /\ (qy.end # NoValue => parse_ymd(qy.end) # 0)}

\* C20 (as claimed): a file is listed exactly when its bucket date lies within
\* the given bounds, its category equals the upper-cased category filter, and
\* the lower-cased text query is a substring of its lower-cased name or
\* category label.
C20_ListedIffMatches ==
    \A qy \in ParsableQueries :
        ListedFiles(cliente1, capturas, qy) = WantedFiles(cliente1, capturas, qy, qy.q, qy.cat)

\* a text without its surrounding blanks: from its first to its last other character
C20_Trimmed(s) ==
    LET idx == {i \in 1..Len(s) : s[i] # " "}
    IN  IF idx = {} THEN <<>>
        ELSE SubSeq(s, CHOOSE i \in idx : \A j \in idx : i <= j, MaxOf(idx))

\* C20 (amended): the same with the text query and the category filter
\* trimmed of surrounding blanks first; a filter that is blank after trimming
\* counts as not given.
C20_ListedIffMatchesTrimmed ==
    \A qy \in ParsableQueries :
        ListedFiles(cliente1, capturas, qy)
            = WantedFiles(cliente1, capturas, qy, C20_Trimmed(qy.q), C20_Trimmed(qy.cat))

\* a listing with the query " DOG " returned the one file named dog out of several
C20_Witness ==
    /\ resp.op = "list" /\ resp.status = 200
    /\ resp.query.q = <<" ","D","O","G"," ">>
    /\ resp.total = 1 /\ Cardinality(DOMAIN files) >= 2

(* ------------------------- daily report claims ------------------------ *)
\* a report was answered in this step
ReportStep == resp'.op = "report" /\ resp'.status = 200 /\ resp' # resp

\* the rows the table holds for the report's owner and date
StoredFor(r) == {t \in tickets : t.owner = r.owner /\ t.fecha = r.fecha}

\* the number of listed rows of movement type m
ListedOfType(r, m) == Cardinality({i \in 1..Len(r.items) : r.items[i].tipo_mov = m})

\* C15: the daily report of (owner, date) lists exactly the rows stored for
\* that owner and date, each once and as stored, in ascending order of their
\* sequence numbers; its ENTRADA and SALIDA counts are the numbers of listed
\* rows of each movement type, and the total of operations is their sum.
C15_ReportListsAndCounts ==
    [][ReportStep =>
        /\ Range(resp'.items) = StoredFor(resp')
        /\ Len(resp'.items) = Cardinality(StoredFor(resp'))
        /\ \A i, j \in 1..Len(resp'.items) :
                i < j => resp'.items[i].n_corr_dia <= resp'.items[j].n_corr_dia
        /\ resp'.counts[ENTRADA] = ListedOfType(resp', ENTRADA)
        /\ resp'.counts[SALIDA] = ListedOfType(resp', SALIDA)
        /\ resp'.total = resp'.counts[ENTRADA] + resp'.counts[SALIDA]]_vars

(* ------------------------- numbering of new rows ---------------------- *)
\* C17: a ticket created for a capture that has no row gets the number
\* 1 + the highest number among the rows that exist for the same owner and
\* date at the moment of its creation (1 when there is none).
C17_NewNumberIsMaxPlusOne ==
    [][nextId' = nextId + 1 =>
        \A t \in tickets' \ tickets :
            RowsFor(t.captura_owner, t.captura_kind, t.captura_day, t.captura_name) = {}
                => t.n_corr_dia = 1 + last_corr(t.owner, t.fecha)]_vars

(* --------------------------- retention sweep -------------------------- *)
\* a startup sweep ran in this step: it wrote its record or removed files
SweepStep ==
    /\ resp'.op = "cleanup"
    /\ \/ resp' # resp
       \/ DOMAIN files' # DOMAIN files /\ DOMAIN files' \subseteq DOMAIN files

\* the date that the bucket of file q names, 0 when its name is no date
BucketDay(q) == parse_ymd(q[Len(DATA_DIR) + 3])

\* C16: the retention sweep removes a day bucket only if its name parses as
\* a date whose midnight is strictly before the cutoff now - days: buckets
\* with unparseable names and buckets at or after the cutoff stay, a retention
\* of 0 or less removes nothing, and the buckets older than the cutoff in
\* which nothing fails to be removed are gone although another bucket failed.
C16_SweepRemovesOnlyOlderBuckets ==
    [][SweepStep =>
        \A removed \in {DOMAIN files \ DOMAIN files'} :
        \A cutoff \in {resp'.now - resp'.days * 86400} :
            /\ \A q \in removed : BucketDay(q) # 0 /\ BucketDay(q) * 86400 < cutoff
            /\ resp'.days <= 0 => removed = {}
            /\ \A q \in DOMAIN files :
                    (/\ resp'.days > 0
                     /\ BucketDay(q) # 0
                     /\ BucketDay(q) * 86400 < cutoff
                     /\ \A f \in resp'.failed : day_dir_of(f) # day_dir_of(q))
                        => q \in removed]_vars

\* a sweep with a retention of one day has removed the capture of a ticket
\* while a file it could not remove and a directory that names no date stay
C16_Witness ==
    /\ resp.op = "cleanup" /\ resp.days = 1
    /\ \E t \in tickets : CapturePath(t) \notin DOMAIN files
    /\ \E f \in resp.failed : f \in DOMAIN files
    /\ \E q \in DOMAIN files : q[Len(DATA_DIR) + 3] = tmp

(* ------------------------- the date of a ticket ----------------------- *)
\* C18: the date under which a ticket is numbered and stored is the date
\* that the day bucket of its capture names, whatever the modification time
\* of the capture file.
C18_TicketDateIsBucketDate ==
    \A t \in tickets : t.fecha = isoformat(parse_ymd(t.captura_day))

(* ------------------------- saves with a ticket id --------------------- *)
\* the rows that differ after the step from the row of the same id before it
ChangedRows == {t \in tickets : \E u \in tickets' : u.id = t.id /\ u # t}

\* C21: a save that carries a ticket id changes only a row of the owner and
\* the capture that the request names and was authorized for.
C21_UpdateOnlyTheRequestsCapture ==
    [][\A p \in Procs :
        (procs[p].pc = "save_update" /\ procs'[p].pc = "idle") =>
            \A t \in ChangedRows :
                /\ t.owner = procs[p].owner
                /\ CaptureKey(t) = <<procs[p].owner, procs[p].kind, procs[p].day, procs[p].name>>]_vars

(* -------------------------- tickets and files ------------------------- *)
\* C22: in every reachable state the capture key of every ticket row names a
\* capture file that exists on disk.
C22_EveryTicketHasItsCapture ==
    \A t \in tickets : Exists(CapturePath(t))

(* ------------------------ listings and tickets ------------------------ *)
\* C23: a listing of an owner's stream shows, on the item of every capture
\* for which a ticket of that owner is stored, the id and the sequence number
\* of a ticket stored for that capture: the key the save stored is the key
\* the listing looks up.
C23_ListingShowsTheSavedTicket ==
    [][ListStep =>
        \A i \in 1..Len(resp'.items) : \A t \in tickets :
            (t.captura_owner = resp'.owner /\ CapturePath(t) = ItemPath(resp'.items[i]))
                => \E u \in tickets :
                        /\ u.captura_owner = resp'.owner
                        /\ CapturePath(u) = CapturePath(t)
                        /\ resp'.items[i].ticket.id = u.id
                        /\ resp'.items[i].ticket.n_corr_dia = u.n_corr_dia]_vars

(* ----------------------- listings and thumbnails ---------------------- *)
\* the files of an owner's capture stream, in buckets that name a date, that
\* are not the thumbnail of a file
IngestedFiles(owner) ==
    {q \in DOMAIN files :
        /\ Len(q) = Len(owner_root(owner)) + 3
        /\ SubSeq(q, 1, Len(owner_root(owner)) + 1) = owner_root(owner) \o <<capturas>>
        /\ parse_ymd(q[Len(q) - 1]) # 0
        /\ \A r \in DOMAIN files : q # thumb_of(r)}

\* C25: an unfiltered listing has one item for each ingested file: no item
\* is the thumbnail written next to an image, and thumbnails are counted
\* neither in the total nor in the counts per category.
C25_ThumbnailsAreNoItems ==
    [][(ListStep /\ resp'.query = NoQuery /\ resp'.page = 1) =>
        /\ \A i \in 1..Len(resp'.items) : ItemPath(resp'.items[i]) \in IngestedFiles(resp'.owner)
        /\ resp'.total = Cardinality(IngestedFiles(resp'.owner))
        /\ resp'.counts[PERSONA] + resp'.counts[AUTO] + resp'.counts[ANIMAL] + resp'.counts[OTROS]
                = Cardinality(IngestedFiles(resp'.owner))]_vars

(* ----------------------- numbers are not reissued --------------------- *)
\* C24: the numbers that first-time saves have handed out for one owner and
\* date are pairwise distinct: a number given to a ticket of one capture is
\* never given to a ticket of another capture, also after a deletion.
C24_NumbersAreNeverReissued ==
    \A a \in issued : \A b \in issued :
        (a.owner = b.owner /\ a.fecha = b.fecha /\ a.n_corr_dia = b.n_corr_dia) => a.path = b.path

====
